---- MODULE Spec2Model ----
(***************************************************************************)
(* Model of plugins/modules/collaborator_information.py: one invocation of *)
(* run_module against one repository of a remote provider, and a re-run of *)
(* the same invocation.  The provider is the pair (perms, order): the role *)
(* of every login on the repository and the order of the provider's        *)
(* listing.  Every remote call the module makes is recorded in calls.      *)
(* SpecExt adds another actor that revokes at the provider, SpecTwo a      *)
(* second invocation on another repository, SpecVerify runs                *)
(* check_permissions on its own.                                           *)
(***************************************************************************)
EXTENDS Integers, Sequences, FiniteSets, TLC

\* ---------------------------------------------------------------- bounds
\* Total number of entries of the four directive sets of one invocation.
MaxDirectives == 2
\* Number of times the same invocation is run in a row.
MaxRuns == 2
\* Number of entries of check_collaborator when check_permissions is
\* checked on its own.
MaxCheck == 3
\* Number of revocations another actor makes on the repository.
MaxExternal == 1

\* ------------------------------------------------------------ vocabulary
Logins == {"alice", "bob"}

\* Roles the provider knows for a direct collaborator; "none" is "not a
\* direct collaborator".
RemoteLevels == {"pull", "triage", "push", "admin"}
Roles == RemoteLevels \cup {"none"}

\* Levels a caller writes in collaborators_to_add / collaborators_to_change:
\* two grant levels, an observed-only level, a case variant and a level
\* nobody knows.
DirectiveLevels == {"pull", "admin", "triage", "PUSH", "superadmin"}

\* Levels a caller writes in check_collaborator.
CheckLevels == {"admin", "write", "push"}

\* Organizations and repository names a caller can name.
Organizations == {"ohioit", "acme"}
RepoNames == {"repo-x", "repo-y"}

\* Roles of the repository before the first run.
InitRoles == {"none", "push"}

\* valid_permissions = ["push", "pull", "admin"]
valid_permissions == {"push", "pull", "admin"}

\* str.lower() on the level strings of the model.
Lower(s) == CASE s = "PUSH" -> "push" [] s = "Admin" -> "admin" [] OTHER -> s

\* ------------------------------------------------------------- variables
VARIABLES
    perms,                    \* provider: login -> role on the repository
    order,                    \* provider: order of its collaborator listing
    collaborators_to_add,     \* module.params: sequence of <<login, level>>
    collaborators_to_remove,  \* module.params: the logins to remove
    check_collaborator,       \* module.params: sequence of <<login, level>>
    collaborators_to_change,  \* module.params: sequence of <<login, level>>
    check_mode,               \* module.check_mode
    organization_name,        \* module.params: the organization
    repo_name,                \* module.params['repo'] as the caller gave it
    repo,                     \* module.params['repo'] after line 300
    pc,                       \* position of run_module
    idx,                      \* position of the loop in progress
    current_collaborators,    \* run_module: the snapshot of line 303
    collaborators,            \* del_collaborators: the listing it iterates
    collaborator_set,         \* change_collaborator_permissions: its set
    status,                   \* check_permissions: its return value
    output,                   \* run_module: the snapshot of line 328
    result,                   \* what exit_json handed to the caller
    calls,                    \* the remote calls made so far, in order
    run,                      \* 1 for the first run, 2 for the re-run
    seen_before,              \* provider roles when line 303 read them
    seen_after,               \* provider roles when line 328 read them
    provider,                 \* provider: qualified name -> roles, as of the
                              \* last time an invocation on it was running
    initial,                  \* provider: the roles before any invocation
    parked,                   \* the invocation that is not running now
    interleaved               \* an invocation was parked in mid-flight

vars == <<perms, order, collaborators_to_add, collaborators_to_remove,
          check_collaborator, collaborators_to_change, check_mode, pc, idx,
          current_collaborators, collaborators, collaborator_set, status,
          output, result, calls, run, seen_before, seen_after,
          organization_name, repo_name, repo, provider, initial, parked,
          interleaved>>

params == <<collaborators_to_add, collaborators_to_remove,
            check_collaborator, collaborators_to_change, check_mode,
            organization_name, repo_name, repo>>

\* What belongs to the other repositories and the other invocation.
elsewhere == <<provider, initial, parked, interleaved>>

\* --------------------------------------------------------------- provider
\* r.get_collaborators(affiliation="direct"): the direct collaborators, in
\* the provider's order.
IsDirect(p, login) == p[login] # "none"
Listing(p) == SelectSeq(order, LAMBDA login : IsDirect(p, login))
Members(p) == {login \in Logins : IsDirect(p, login)}

\* collaborator.id / .type / .site_admin / .permissions as the provider
\* reports them.
IdOf(login) == CASE login = "alice" -> 101 [] login = "bob" -> 102 [] OTHER -> 103
Flags(role) ==
    [triage |-> role \in {"triage", "push", "admin"},
     push   |-> role \in {"push", "admin"},
     pull   |-> role \in RemoteLevels,
     admin  |-> role = "admin"]

\* r.get_collaborator_permission(user): the provider answers with its
\* effective-permission vocabulary.
EffectivePermission(p, login) ==
    CASE p[login] = "admin" -> "admin"
      [] p[login] = "push"  -> "write"
      [] p[login] \in {"pull", "triage"} -> "read"
      [] OTHER -> "none"

\* r.add_to_collaborators(login, permission=level): the roles the provider
\* may set for the request; "rejected" is the request failing.  A level of
\* the provider's vocabulary is set; a case variant of one is either taken
\* as that level or rejected; any other level is rejected.
ProviderGrant(level) ==
    IF level \in RemoteLevels THEN {level}
    ELSE IF Lower(level) \in RemoteLevels THEN {Lower(level), "rejected"}
    ELSE {"rejected"}

Call(op, login, level, step) ==
    [op |-> op, login |-> login, level |-> level, step |-> step, run |-> run,
     repo |-> repo]

\* -------------------------------------------------------- repository name
\* A module that looks every repository up in one organization, whatever
\* organization_name holds.
QualifiedNameDefaultOrg(organization, name) == <<"ohioit", "/", name>>

\* Lines 300-301: module.params['repo'] = organization_name + "/" + repo,
\* as the pieces the code concatenates.
QualifiedName(organization, name) == <<organization, "/", name>>

\* The names g.get_repo resolves.
QualifiedNames == Organizations \X {"/"} \X RepoNames

\* The provider holding roles p on repository q and no collaborator on any
\* other repository.
OneRepository(q, p) ==
    [n \in QualifiedNames |->
        IF n = q THEN p ELSE [login \in DOMAIN p |-> "none"]]

NoInvocation == [kind |-> "none"]

\* One invocation, on ohioit/repo-x.
OneInvocation ==
    /\ organization_name = "ohioit"
    /\ repo_name = "repo-x"
    /\ repo = QualifiedName(organization_name, repo_name)
    /\ provider = OneRepository(repo, perms)
    /\ initial = provider
    /\ parked = NoInvocation
    /\ interleaved = FALSE

\* ------------------------------------------------------ get_collaborators
\* The dict collab_output after the loop body ran for the k-th collaborator
\* of listing l.
CollabOutput(p, l, k) ==
    [login       |-> l[k],
     id          |-> IdOf(l[k]),
     type        |-> "User",
     site_admin  |-> FALSE,
     permissions |-> Flags(p[l[k]])]

\* output.append(collab_output) appends the one dict created before the
\* loop, so after the loop every element of output is that dict with the
\* fields the last iteration gave it.
get_collaborators(p) ==
    LET l == Listing(p)
    IN  [k \in 1..Len(l) |-> CollabOutput(p, l, Len(l))]

\* json.dumps of a snapshot: the fields of every entry in insertion order.
json_dumps(snapshot) ==
    [k \in 1..Len(snapshot) |->
        <<snapshot[k].login, snapshot[k].id, snapshot[k].type,
          snapshot[k].site_admin,
          snapshot[k].permissions.triage, snapshot[k].permissions.push,
          snapshot[k].permissions.pull, snapshot[k].permissions.admin>>]

\* ------------------------------------------------------ check_permissions
\* A check_permissions whose status is the outcome of the last comparison.
RECURSIVE CheckLoopLastWins(_, _, _, _)
CheckLoopLastWins(p, to_check, k, st) ==
    IF k > Len(to_check) THEN st
    ELSE CheckLoopLastWins(p, to_check, k + 1,
             EffectivePermission(p, to_check[k][1]) = to_check[k][2])

RECURSIVE CheckLoop(_, _, _, _)
CheckLoop(p, to_check, k, st) ==
    IF k > Len(to_check) THEN st
    ELSE CheckLoop(p, to_check, k + 1,
                   IF EffectivePermission(p, to_check[k][1]) # to_check[k][2]
                   THEN FALSE ELSE st)

check_permissions(p, to_check) == CheckLoop(p, to_check, 1, TRUE)

\* ------------------------------------------------------------- run_module
\* A mis-ordered run_module: the removal is applied before the additions.
StepOrderRemoveFirst == <<"remove", "add", "check", "change">>

\* Lines 305-326: the order in which run_module calls the four operations.
StepOrder == <<"add", "remove", "check", "change">>

\* A run_module that calls check_permissions whatever check_collaborator
\* holds.
HasDirectiveCheckAlways(step) ==
    CASE step = "add"    -> collaborators_to_add # <<>>
      [] step = "remove" -> collaborators_to_remove # {}
      [] step = "check"  -> TRUE
      [] step = "change" -> collaborators_to_change # <<>>

\* Lines 305, 316, 320, 324: a step is entered only when its directive set
\* is not empty.
HasDirective(step) ==
    CASE step = "add"    -> collaborators_to_add # <<>>
      [] step = "remove" -> collaborators_to_remove # {}
      [] step = "check"  -> check_collaborator # <<>>
      [] step = "change" -> collaborators_to_change # <<>>

\* The first step from position k of StepOrder on that is entered; line 328
\* when there is none.
RECURSIVE StepFrom(_)
StepFrom(k) ==
    IF k > Len(StepOrder) THEN "read_after"
    ELSE IF HasDirective(StepOrder[k]) THEN StepOrder[k]
    ELSE StepFrom(k + 1)

After(step) ==
    StepFrom(1 + CHOOSE k \in 1..Len(StepOrder) : StepOrder[k] = step)

AfterAdd == After("add")
AfterRemove == After("remove")
\* A run_module in which check_permissions ends the mutating steps.
AfterCheckSkipsChange == "read_after"

AfterCheck == After("check")
AfterChange == After("change")

\* Line 307: the test that rejects a level of collaborators_to_add.
Invalid(level) == Lower(level) \notin valid_permissions

NoResult == [kind |-> "none"]

DirectivesOfLen(levels, n) ==
    {s \in [1..n -> Logins \X levels] :
        \A i, j \in 1..n : i # j => s[i][1] # s[j][1]}

ListingOrders == {s \in [1..Cardinality(Logins) -> Logins] :
                    \A i, j \in DOMAIN s : i # j => s[i] # s[j]}

Locals0 ==
    /\ pc = "read_before"
    /\ idx = 0
    /\ current_collaborators = <<>>
    /\ collaborators = <<>>
    /\ collaborator_set = {}
    /\ status = TRUE
    /\ output = <<>>
    /\ result = NoResult
    /\ calls = <<>>

Init ==
    /\ perms \in [Logins -> InitRoles]
    /\ order \in ListingOrders
    /\ \E na, nr, nc, nch \in 0..MaxDirectives :
        /\ na + nr + nc + nch <= MaxDirectives
        /\ collaborators_to_add \in DirectivesOfLen(DirectiveLevels, na)
        /\ collaborators_to_remove \in
              {S \in SUBSET Logins : Cardinality(S) = nr}
        /\ check_collaborator \in DirectivesOfLen(CheckLevels, nc)
        /\ collaborators_to_change \in DirectivesOfLen(DirectiveLevels, nch)
    /\ check_mode \in BOOLEAN
    /\ Locals0
    /\ run = 1
    /\ seen_before = perms
    /\ seen_after = perms
    /\ OneInvocation

\* Line 303: current_collaborators = get_collaborators(g, repo)
ReadBefore ==
    /\ pc = "read_before"
    /\ current_collaborators' = get_collaborators(perms)
    /\ seen_before' = perms
    /\ calls' = calls \o <<Call("get_repo", "-", "-", "before"),
                           Call("list", "-", "-", "before")>>
    /\ pc' = "validate"
    /\ UNCHANGED <<perms, order, params, elsewhere,
                   idx, collaborators, collaborator_set,
                   status, output, result, run, seen_after>>

\* Lines 305-312: every level of collaborators_to_add is tested before
\* add_collaborator is called; the first one that fails ends the module
\* with exit_json(changed=False, failed=True, msg=...).
FirstInvalid ==
    LET bad == {i \in 1..Len(collaborators_to_add) :
                    Invalid(collaborators_to_add[i][2])}
    IN  CHOOSE i \in bad : \A j \in bad : i <= j

\* Lines 308-310: the message of the validation failure for the entry
\* username -> level, as the pieces the code concatenates.
InvalidMsg(username, level) ==
    <<"Invalid permission: ", level,
      ". Permissions must be 'push' 'pull' or 'admin'">>

Validate ==
    /\ pc = "validate"
    /\ IF \E i \in 1..Len(collaborators_to_add) :
              Invalid(collaborators_to_add[i][2])
       THEN /\ pc' = "invalid"
            /\ result' = [kind |-> "failed", changed |-> FALSE,
                          msg |-> InvalidMsg(
                                    collaborators_to_add[FirstInvalid][1],
                                    collaborators_to_add[FirstInvalid][2])]
       ELSE /\ pc' = StepFrom(1)
            /\ UNCHANGED result
    /\ UNCHANGED <<perms, order, params, elsewhere, idx, current_collaborators,
                   collaborators, collaborator_set, status, output, calls,
                   run, seen_before, seen_after>>

\* Line 214: r = g.get_repo(repo) in add_collaborator
AddEnter ==
    /\ pc = "add"
    /\ calls' = Append(calls, Call("get_repo", "-", "-", "add"))
    /\ idx' = 1
    /\ pc' = "add_loop"
    /\ UNCHANGED <<perms, order, params, elsewhere,
                   current_collaborators, collaborators,
                   collaborator_set, status, output, result, run,
                   seen_before, seen_after>>

\* Lines 215-216: one r.add_to_collaborators(p, permission=to_add[p])
AddGrant ==
    /\ pc = "add_loop"
    /\ LET p   == collaborators_to_add[idx][1]
           lvl == collaborators_to_add[idx][2]
       IN  /\ calls' = Append(calls, Call("grant", p, lvl, "add"))
           /\ \E o \in ProviderGrant(lvl) :
                IF o = "rejected"
                THEN pc' = "error" /\ UNCHANGED <<perms, idx>>
                ELSE /\ perms' = [perms EXCEPT ![p] = o]
                     /\ IF idx < Len(collaborators_to_add)
                        THEN idx' = idx + 1 /\ pc' = "add_loop"
                        ELSE idx' = 0 /\ pc' = AfterAdd
    /\ UNCHANGED <<order, params, elsewhere,
                   current_collaborators, collaborators,
                   collaborator_set, status, output, result, run,
                   seen_before, seen_after>>

\* Lines 229-230: r = g.get_repo(repo); r.get_collaborators("direct")
DelEnter ==
    /\ pc = "remove"
    /\ calls' = calls \o <<Call("get_repo", "-", "-", "remove"),
                           Call("list", "-", "-", "remove")>>
    /\ collaborators' = Listing(perms)
    /\ IF Listing(perms) = <<>>
       THEN idx' = 0 /\ pc' = AfterRemove
       ELSE idx' = 1 /\ pc' = "remove_loop"
    /\ UNCHANGED <<perms, order, params, elsewhere, current_collaborators,
                   collaborator_set, status, output, result, run,
                   seen_before, seen_after>>

\* A del_collaborators that lost the test of line 232.
DelRevokesAll(login) == TRUE

\* Line 232: whether the loop of del_collaborators revokes login.
DelRevokes(login) == login \in collaborators_to_remove

\* Lines 231-233: one iteration of the loop of del_collaborators
DelStep ==
    /\ pc = "remove_loop"
    /\ LET login == collaborators[idx]
       IN  IF DelRevokes(login)
           THEN /\ perms' = [perms EXCEPT ![login] = "none"]
                /\ calls' = Append(calls, Call("revoke", login, "-", "remove"))
           ELSE UNCHANGED <<perms, calls>>
    /\ IF idx < Len(collaborators)
       THEN idx' = idx + 1 /\ pc' = "remove_loop"
       ELSE idx' = 0 /\ pc' = AfterRemove
    /\ UNCHANGED <<order, params, elsewhere,
                   current_collaborators, collaborators,
                   collaborator_set, status, output, result, run,
                   seen_before, seen_after>>

\* Lines 219-225 and 321: check_permissions; run_module drops its value.
CheckStep ==
    /\ pc = "check"
    /\ status' = check_permissions(perms, check_collaborator)
    /\ calls' = calls \o <<Call("get_repo", "-", "-", "check")>> \o
                [k \in 1..Len(check_collaborator) |->
                    Call("permission", check_collaborator[k][1], "-", "check")]
    /\ pc' = AfterCheck
    /\ UNCHANGED <<perms, order, params, elsewhere, idx, current_collaborators,
                   collaborators, collaborator_set, output, result, run,
                   seen_before, seen_after>>

\* Lines 237-241: the set of the logins of the direct collaborators
ChangeEnter ==
    /\ pc = "change"
    /\ calls' = calls \o <<Call("get_repo", "-", "-", "change"),
                           Call("list", "-", "-", "change")>>
    /\ collaborator_set' = Members(perms)
    /\ idx' = 1
    /\ pc' = "change_loop"
    /\ UNCHANGED <<perms, order, params, elsewhere,
                   current_collaborators, collaborators,
                   status, output, result, run, seen_before, seen_after>>

\* A change_collaborator_permissions that lost the test of line 243.
ChangeGrantsAll(p) == TRUE

\* Line 243: whether the loop of change_collaborator_permissions grants p.
ChangeGrants(p) == p \in collaborator_set

\* Lines 242-244: one iteration of the loop
ChangeStep ==
    /\ pc = "change_loop"
    /\ LET p   == collaborators_to_change[idx][1]
           lvl == collaborators_to_change[idx][2]
           advance ==
               IF idx < Len(collaborators_to_change)
               THEN idx' = idx + 1 /\ pc' = "change_loop"
               ELSE idx' = 0 /\ pc' = AfterChange
       IN  IF ChangeGrants(p)
           THEN /\ calls' = Append(calls, Call("grant", p, lvl, "change"))
                /\ \E o \in ProviderGrant(lvl) :
                     IF o = "rejected"
                     THEN pc' = "error" /\ UNCHANGED <<perms, idx>>
                     ELSE perms' = [perms EXCEPT ![p] = o] /\ advance
           ELSE advance /\ UNCHANGED <<perms, calls>>
    /\ UNCHANGED <<order, params, elsewhere,
                   current_collaborators, collaborators,
                   collaborator_set, status, output, result, run,
                   seen_before, seen_after>>

\* Line 328: output = get_collaborators(g, repo)
ReadAfter ==
    /\ pc = "read_after"
    /\ output' = get_collaborators(perms)
    /\ seen_after' = perms
    /\ calls' = calls \o <<Call("get_repo", "-", "-", "after"),
                           Call("list", "-", "-", "after")>>
    /\ pc' = "emit"
    /\ UNCHANGED <<perms, order, params, elsewhere, idx, current_collaborators,
                   collaborators, collaborator_set, status, result, run,
                   seen_before>>

\* A run_module that reports changed=True whatever the snapshots hold.
EmitAlwaysChanged ==
    /\ pc = "emit"
    /\ IF check_mode
       THEN pc' = "returned" /\ UNCHANGED result
       ELSE /\ pc' = "done"
            /\ result' = [kind |-> "success", changed |-> TRUE,
                          collaborators |-> output]
    /\ UNCHANGED <<perms, order, params, elsewhere, idx, current_collaborators,
                   collaborators, collaborator_set, status, output, calls,
                   run, seen_before, seen_after>>

\* Lines 330-334: in check mode run_module returns without exit_json;
\* otherwise it emits changed and collaborators.
Emit ==
    /\ pc = "emit"
    /\ IF check_mode
       THEN pc' = "returned" /\ UNCHANGED result
       ELSE /\ pc' = "done"
            /\ result' = [kind |-> "success",
                          changed |-> (json_dumps(current_collaborators)
                                       # json_dumps(output)),
                          collaborators |-> output]
    /\ UNCHANGED <<perms, order, params, elsewhere, idx, current_collaborators,
                   collaborators, collaborator_set, status, output, calls,
                   run, seen_before, seen_after>>

\* The positions of run_module at which the next thing it does is a remote
\* call.
AtRemoteCall ==
    \/ pc \in {"read_before", "add", "add_loop", "remove", "check",
               "change", "read_after"}
    \/ pc = "remove_loop" /\ DelRevokes(collaborators[idx])
    \/ pc = "change_loop" /\ ChangeGrants(collaborators_to_change[idx][1])

\* A module that undoes its mutations when a remote call raises.
RemoteFailRollback ==
    /\ AtRemoteCall
    /\ pc' = "error"
    /\ perms' = seen_before
    /\ UNCHANGED <<order, params, elsewhere, idx, current_collaborators,
                   collaborators, collaborator_set, status, output, result,
                   calls, run, seen_before, seen_after>>

\* A remote call raises: nothing catches the exception, so the module ends
\* there; what was applied stays applied.
RemoteFail ==
    /\ AtRemoteCall
    /\ pc' = "error"
    /\ UNCHANGED <<perms, order, params, elsewhere, idx, current_collaborators,
                   collaborators, collaborator_set, status, output, result,
                   calls, run, seen_before, seen_after>>

\* The caller runs the same task again.
Rerun ==
    /\ pc \in {"done", "returned"}
    /\ run < MaxRuns
    /\ run' = run + 1
    /\ pc' = "read_before"
    /\ idx' = 0
    /\ current_collaborators' = <<>>
    /\ collaborators' = <<>>
    /\ collaborator_set' = {}
    /\ status' = TRUE
    /\ output' = <<>>
    /\ result' = NoResult
    /\ UNCHANGED <<perms, order, params, elsewhere,
                   calls, seen_before, seen_after>>

Next ==
    \/ ReadBefore
    \/ Validate
    \/ AddEnter
    \/ AddGrant
    \/ DelEnter
    \/ DelStep
    \/ CheckStep
    \/ ChangeEnter
    \/ ChangeStep
    \/ ReadAfter
    \/ Emit
    \/ RemoteFail
    \/ Rerun

Spec == Init /\ [][Next]_vars

\* ------------------------------------------------- another actor's writes
\* Somebody else revokes a direct collaborator while the module runs: the
\* provider is the sole arbiter of concurrent writes, the module takes no
\* lock.
ExternalRevoke ==
    /\ pc \notin {"done", "returned", "invalid", "error"}
    /\ Cardinality({k \in DOMAIN calls : calls[k].op = "ext_revoke"})
          < MaxExternal
    /\ \E login \in Members(perms) :
          /\ perms' = [perms EXCEPT ![login] = "none"]
          /\ calls' = Append(calls, Call("ext_revoke", login, "-", "external"))
    /\ UNCHANGED <<order, params, elsewhere, pc, idx, current_collaborators,
                   collaborators, collaborator_set, status, output, result,
                   run, seen_before, seen_after>>

\* One invocation, not in check mode and without check_collaborator, with
\* the other actor writing at any point of it.
InitExt ==
    /\ Init
    /\ check_mode = FALSE
    /\ check_collaborator = <<>>

NextExt ==
    \/ ReadBefore
    \/ Validate
    \/ AddEnter
    \/ AddGrant
    \/ DelEnter
    \/ DelStep
    \/ ChangeEnter
    \/ ChangeStep
    \/ ReadAfter
    \/ Emit
    \/ RemoteFail
    \/ ExternalRevoke

SpecExt == InitExt /\ [][NextExt]_vars

\* ------------------------------------------------- two repositories
\* Two invocations, each a process of its own (main, lines 337-338), on two
\* repositories of the provider; the scheduler runs one of them at a time
\* and may change over between any two steps.  perms is the repository the
\* running invocation reaches through g.get_repo(repo).
TwoLevels == {"pull", "superadmin"}

\* The running invocation as a record.
Self ==
    [kind |-> "invocation",
     collaborators_to_add |-> collaborators_to_add,
     collaborators_to_remove |-> collaborators_to_remove,
     check_collaborator |-> check_collaborator,
     collaborators_to_change |-> collaborators_to_change,
     check_mode |-> check_mode,
     organization_name |-> organization_name,
     repo_name |-> repo_name,
     repo |-> repo,
     pc |-> pc, idx |-> idx,
     current_collaborators |-> current_collaborators,
     collaborators |-> collaborators,
     collaborator_set |-> collaborator_set,
     status |-> status, output |-> output, result |-> result,
     calls |-> calls, run |-> run,
     seen_before |-> seen_before, seen_after |-> seen_after]

InFlight(position) == position \notin {"done", "returned", "invalid", "error"}

\* The scheduler parks the running invocation and resumes the other one.
\* It does so where the running invocation is about to make a remote call
\* or has ended: the steps in between touch nothing but the process's own
\* memory.
Switch ==
    /\ parked # NoInvocation
    /\ InFlight(parked.pc)
    /\ AtRemoteCall \/ ~InFlight(pc)
    /\ parked' = Self
    /\ interleaved' = (interleaved \/ (calls # <<>> /\ InFlight(pc)))
    /\ provider' = [provider EXCEPT ![repo] = perms]
    /\ perms' = provider'[parked.repo]
    /\ collaborators_to_add' = parked.collaborators_to_add
    /\ collaborators_to_remove' = parked.collaborators_to_remove
    /\ check_collaborator' = parked.check_collaborator
    /\ collaborators_to_change' = parked.collaborators_to_change
    /\ check_mode' = parked.check_mode
    /\ organization_name' = parked.organization_name
    /\ repo_name' = parked.repo_name
    /\ repo' = parked.repo
    /\ pc' = parked.pc
    /\ idx' = parked.idx
    /\ current_collaborators' = parked.current_collaborators
    /\ collaborators' = parked.collaborators
    /\ collaborator_set' = parked.collaborator_set
    /\ status' = parked.status
    /\ output' = parked.output
    /\ result' = parked.result
    /\ calls' = parked.calls
    /\ run' = parked.run
    /\ seen_before' = parked.seen_before
    /\ seen_after' = parked.seen_after
    /\ UNCHANGED <<order, initial>>

\* The invocation on organization/name with the given directives, before
\* its first step, on a provider that holds roles p0 for its repository.
NewInvocation(organization, name, to_add, to_remove, to_change, p0) ==
    [kind |-> "invocation",
     collaborators_to_add |-> to_add,
     collaborators_to_remove |-> to_remove,
     check_collaborator |-> <<>>,
     collaborators_to_change |-> to_change,
     check_mode |-> FALSE,
     organization_name |-> organization,
     repo_name |-> name,
     repo |-> QualifiedName(organization, name),
     pc |-> "read_before", idx |-> 0,
     current_collaborators |-> <<>>,
     collaborators |-> <<>>,
     collaborator_set |-> {},
     status |-> TRUE, output |-> <<>>, result |-> NoResult,
     calls |-> <<>>, run |-> 1,
     seen_before |-> p0, seen_after |-> p0]

InitTwo ==
    /\ order = <<"alice", "bob">>
    /\ organization_name = "ohioit"
    /\ repo_name = "repo-x"
    /\ repo = QualifiedName(organization_name, repo_name)
    /\ check_collaborator = <<>>
    /\ check_mode = FALSE
    /\ Locals0
    /\ run = 1
    /\ interleaved = FALSE
    /\ \E o \in Organizations, n \in RepoNames :
          \* another repository of the same organization, or the
          \* repository of the same name in another organization
          /\ (o = organization_name) # (n = repo_name)
          /\ provider \in
                {f \in [QualifiedNames -> [Logins -> InitRoles]] :
                    \A q \in QualifiedNames :
                        q \notin {<<organization_name, "/", repo_name>>,
                                  <<o, "/", n>>}
                            => \A login \in Logins : f[q][login] = "none"}
          /\ \E na, nr, nch, pa, pr, pch \in 0..MaxDirectives :
                /\ na + nr + nch + pa + pr + pch <= MaxDirectives
                /\ collaborators_to_add \in DirectivesOfLen(TwoLevels, na)
                /\ collaborators_to_remove \in
                      {S \in SUBSET Logins : Cardinality(S) = nr}
                /\ collaborators_to_change \in
                      DirectivesOfLen(TwoLevels, nch)
                /\ \E to_add \in DirectivesOfLen(TwoLevels, pa),
                      to_remove \in
                          {S \in SUBSET Logins : Cardinality(S) = pr},
                      to_change \in DirectivesOfLen(TwoLevels, pch) :
                        parked = NewInvocation(o, n, to_add, to_remove,
                                     to_change,
                                     provider[QualifiedName(o, n)])
    /\ perms = provider[repo]
    /\ initial = provider
    /\ seen_before = perms
    /\ seen_after = perms

NextTwo ==
    \/ ReadBefore
    \/ Validate
    \/ AddEnter
    \/ AddGrant
    \/ DelEnter
    \/ DelStep
    \/ ChangeEnter
    \/ ChangeStep
    \/ ReadAfter
    \/ Emit
    \/ Switch

SpecTwo == InitTwo /\ [][NextTwo]_vars

\* ------------------------------------------- check_permissions on its own
\* check_permissions applied to every repository of three logins and every
\* check_collaborator of at most MaxCheck entries.
VerifyLogins == Logins \cup {"carol"}
VerifyLevels == {"admin", "write", "read", "push"}

InitVerify ==
    /\ perms \in [VerifyLogins -> Roles]
    /\ order = <<"alice", "bob", "carol">>
    /\ collaborators_to_add = <<>>
    /\ collaborators_to_remove = {}
    /\ \E n \in 0..MaxCheck :
          check_collaborator \in
              {s \in [1..n -> VerifyLogins \X VerifyLevels] :
                  \A i, j \in 1..n : i # j => s[i][1] # s[j][1]}
    /\ collaborators_to_change = <<>>
    /\ check_mode = FALSE
    /\ pc = "check"
    /\ idx = 0
    /\ current_collaborators = get_collaborators(perms)
    /\ collaborators = <<>>
    /\ collaborator_set = {}
    /\ status = TRUE
    /\ output = <<>>
    /\ result = NoResult
    /\ calls = <<>>
    /\ run = 1
    /\ seen_before = perms
    /\ seen_after = perms
    /\ OneInvocation

NextVerify == CheckStep

SpecVerify == InitVerify /\ [][NextVerify]_vars

\* ----------------------------------------------------------------- claims
\* The grant levels of the permission vocabulary.
ValidGrantLevels == {"push", "pull", "admin"}

AddLogins == {collaborators_to_add[i][1] : i \in DOMAIN collaborators_to_add}
ChangeLogins ==
    {collaborators_to_change[i][1] : i \in DOMAIN collaborators_to_change}

\* The calls of the run in progress.
ThisRun == {k \in DOMAIN calls : calls[k].run = run}
MutationsThisRun == {k \in ThisRun : calls[k].op \in {"grant", "revoke"}}

StepRank(step) ==
    CASE step = "before" -> 0 [] step = "add" -> 1 [] step = "remove" -> 2
      [] step = "check" -> 3 [] step = "change" -> 4 [] step = "after" -> 5

\* C1: when some level of collaborators_to_add is not a valid grant level,
\* the invocation issues no grant and no revoke, and the remote collaborator
\* state stays what it was before the invocation.
C1_InvalidAddLevelAbortsBeforeAnyMutation ==
    (\E i \in DOMAIN collaborators_to_add :
        collaborators_to_add[i][2] \notin ValidGrantLevels)
    => /\ MutationsThisRun = {}
       /\ perms = seen_before
       /\ pc \notin {"emit", "done", "returned"}

\* C2: in check (dry-run) mode no grant and no revoke is issued, and the
\* remote collaborator state is unchanged.
C2_DryRunIssuesNoMutation ==
    check_mode =>
        /\ \A k \in DOMAIN calls : calls[k].op \notin {"grant", "revoke"}
        /\ perms = seen_before

\* C3: the emitted changed flag is false when the two snapshots are
\* identical, and true whenever some direct collaborator's permission map
\* differs between the remote state at the 'before' read and the remote
\* state at the 'after' read.
C3_ChangedIffPermissionsDiffer ==
    pc = "done" =>
        /\ (json_dumps(current_collaborators) = json_dumps(output)
                => result.changed = FALSE)
        /\ ((\E login \in Members(seen_before) \cap Members(seen_after) :
                Flags(seen_before[login]) # Flags(seen_after[login]))
                => result.changed = TRUE)

\* C4: the snapshot read at the end holds exactly one entry per direct
\* collaborator, and each entry carries that collaborator's own login, id,
\* type, site-admin flag and permission flags.
C4_SnapshotHasOneEntryPerCollaborator ==
    pc \in {"emit", "done", "returned"} =>
        /\ Len(output) = Cardinality(Members(seen_after))
        /\ \A login \in Members(seen_after) :
              \E k \in DOMAIN output :
                  output[k] = [login       |-> login,
                               id          |-> IdOf(login),
                               type        |-> "User",
                               site_admin  |-> FALSE,
                               permissions |-> Flags(seen_after[login])]

\* C5: a directive whose level is not a valid grant level makes the whole
\* invocation fail before any mutation, for collaborators_to_change as for
\* collaborators_to_add: when collaborators_to_change holds such a level the
\* invocation issues no grant and no revoke, and no grant of the change step
\* carries a level outside push, pull, admin.
C5_InvalidLevelNeverGranted ==
    /\ \A k \in DOMAIN calls :
          (calls[k].op = "grant" /\ calls[k].step = "change")
              => calls[k].level \in ValidGrantLevels
    /\ (\E i \in DOMAIN collaborators_to_change :
            collaborators_to_change[i][2] \notin ValidGrantLevels)
       => MutationsThisRun = {}

\* C6: change_collaborator_permissions grants only logins of the snapshot it
\* read, so it adds no login to the collaborator set; an invocation whose
\* only directives are collaborators_to_change entries for non-collaborators
\* leaves the repository unchanged and reports changed = false.
C6_ChangeNeverAddsCollaborator ==
    /\ \A k \in ThisRun :
          (calls[k].op = "grant" /\ calls[k].step = "change")
              => calls[k].login \in collaborator_set
    /\ (\E k \in ThisRun : calls[k].op = "list" /\ calls[k].step = "change")
          => Members(perms) \subseteq collaborator_set
    /\ (/\ pc = "done"
        /\ collaborators_to_add = <<>>
        /\ collaborators_to_remove = {}
        /\ ChangeLogins \cap Members(seen_before) = {})
       => /\ perms = seen_before
          /\ result.changed = FALSE

C6_Witness ==
    /\ pc = "done"
    /\ collaborators_to_add = <<>>
    /\ collaborators_to_remove = {}
    /\ collaborators_to_change # <<>>
    /\ ChangeLogins \cap Members(seen_before) = {}
    /\ Members(seen_before) # {}
    /\ \E k \in ThisRun : calls[k].op = "list" /\ calls[k].step = "change"
    /\ result.changed = FALSE

\* C7: the operations run in the order add, remove, check, change, and at
\* the end of an invocation a login of both collaborators_to_add and
\* collaborators_to_remove is no collaborator, a login of both
\* collaborators_to_add and collaborators_to_change (and not of
\* collaborators_to_remove) has the level collaborators_to_change gives it,
\* and a login of both collaborators_to_remove and collaborators_to_change
\* is no collaborator.
LevelOf(directive, login) ==
    directive[CHOOSE i \in DOMAIN directive : directive[i][1] = login][2]

C7_OrderDecidesOverlaps ==
    /\ \A j, k \in ThisRun :
          j < k => StepRank(calls[j].step) <= StepRank(calls[k].step)
    /\ pc \in {"done", "returned"} =>
          \A login \in Logins :
              /\ login \in AddLogins \cap collaborators_to_remove
                    => perms[login] = "none"
              /\ login \in (AddLogins \cap ChangeLogins)
                              \ collaborators_to_remove
                    => perms[login] \in
                          ProviderGrant(LevelOf(collaborators_to_change, login))
              /\ login \in collaborators_to_remove \cap ChangeLogins
                    => perms[login] = "none"

C7_Witness ==
    /\ pc = "done"
    /\ \E login \in (AddLogins \cap ChangeLogins) \ collaborators_to_remove :
          /\ LevelOf(collaborators_to_add, login)
                # LevelOf(collaborators_to_change, login)
          /\ perms[login] = LevelOf(collaborators_to_change, login)
          /\ \E j, k \in ThisRun :
                /\ j < k
                /\ calls[j] = Call("grant", login,
                                   LevelOf(collaborators_to_add, login), "add")
                /\ calls[k] = Call("grant", login,
                                   LevelOf(collaborators_to_change, login),
                                   "change")

\* C8: del_collaborators revokes exactly the logins that are both in
\* collaborators_to_remove and in the listing it read; a login that is no
\* direct collaborator causes no revoke and no error, so running the same
\* removal a second time issues no revoke and leaves the collaborator set as
\* the first run left it.
Revoked == {calls[k].login : k \in {j \in ThisRun : calls[j].op = "revoke"}}
Listed == {collaborators[i] : i \in DOMAIN collaborators}
RemoveDone ==
    /\ \E k \in ThisRun : calls[k].op = "list" /\ calls[k].step = "remove"
    /\ pc \notin {"remove_loop", "error"}

C8_RemoveIsExactAndIdempotent ==
    /\ Revoked \subseteq collaborators_to_remove \cap Listed
    /\ RemoveDone => Revoked = collaborators_to_remove \cap Listed
    /\ RemoveDone => collaborators_to_remove \cap Members(perms) = {}
    /\ (/\ run > 1
        /\ collaborators_to_add = <<>>
        /\ collaborators_to_change = <<>>)
       => /\ Revoked = {}
          /\ perms = seen_after

C8_Witness ==
    /\ run = 2
    /\ pc = "done"
    /\ collaborators_to_add = <<>>
    /\ collaborators_to_change = <<>>
    /\ \E k \in DOMAIN calls : calls[k].op = "revoke" /\ calls[k].run = 1
    /\ \E k \in ThisRun : calls[k].op = "list" /\ calls[k].step = "remove"
    /\ collaborators # <<>>
    /\ Revoked = {}

\* C9: check_permissions returns true exactly when, for every pair of
\* check_collaborator, the provider's effective permission of the login
\* equals the expected level; one mismatch anywhere makes it false, and an
\* empty check_collaborator gives true.
Matches(k) ==
    EffectivePermission(perms, check_collaborator[k][1])
        = check_collaborator[k][2]
JustChecked == calls # <<>> /\ calls[Len(calls)].step = "check"

C9_VerifyIffAllMatch ==
    JustChecked => (status <=> \A k \in DOMAIN check_collaborator : Matches(k))

C9_Witness ==
    /\ JustChecked
    /\ Len(check_collaborator) = 3
    /\ Matches(1)
    /\ ~Matches(2)
    /\ Matches(3)
    /\ status = FALSE

\* C10: a remote call that fails ends the invocation where it failed: from
\* then on nothing is granted, revoked, read or emitted, no success result
\* exists, and the failure itself undoes none of the mutations applied
\* before it.
C10_FailureEndsInvocationWithoutRollback ==
    [][/\ pc = "error" => UNCHANGED vars
       /\ pc' = "error" =>
            /\ perms' = perms
            /\ result' = NoResult]_vars

C10_Witness ==
    /\ pc = "error"
    /\ perms # seen_before
    /\ result = NoResult
    /\ \E k \in ThisRun : calls[k].op = "grant" /\ calls[k].step = "add"
    /\ idx = 2

\* C11: every invocation that ends hands the caller exactly one outcome, a
\* success result with changed and collaborators or a structured failure,
\* in check mode too; a validation failure carries no collaborators field.
Ended == pc \in {"done", "returned", "invalid"}

C11_EveryInvocationEmitsOneOutcome ==
    /\ Ended =>
          \/ /\ result.kind = "success"
             /\ DOMAIN result = {"kind", "changed", "collaborators"}
          \/ result.kind = "failed"
    /\ result.kind = "failed" => "collaborators" \notin DOMAIN result

\* C12: a step whose directive set is empty makes no remote call; an
\* invocation with all four directive sets empty makes only the calls of the
\* 'before' read and of the 'after' read.
ReadCalls(step) ==
    <<[op |-> "get_repo", login |-> "-", level |-> "-", step |-> step,
       run |-> run, repo |-> repo],
      [op |-> "list", login |-> "-", level |-> "-", step |-> step,
       run |-> run, repo |-> repo]>>
CallsThisRun == SelectSeq(calls, LAMBDA c : c.run = run)

C12_EmptyDirectiveMakesNoCall ==
    /\ \A k \in ThisRun :
          /\ calls[k].step = "add" => collaborators_to_add # <<>>
          /\ calls[k].step = "remove" => collaborators_to_remove # {}
          /\ calls[k].step = "check" => check_collaborator # <<>>
          /\ calls[k].step = "change" => collaborators_to_change # <<>>
    /\ (/\ pc \in {"emit", "done", "returned"}
        /\ collaborators_to_add = <<>>
        /\ collaborators_to_remove = {}
        /\ check_collaborator = <<>>
        /\ collaborators_to_change = <<>>)
       => CallsThisRun = ReadCalls("before") \o ReadCalls("after")

C12_Witness ==
    /\ pc = "done"
    /\ collaborators_to_add = <<>>
    /\ collaborators_to_remove = {}
    /\ check_collaborator = <<>>
    /\ collaborators_to_change = <<>>
    /\ Members(perms) # {}
    /\ Len(CallsThisRun) = 4

\* C13: the grant-level check accepts a level exactly when it is push, pull
\* or admin, so every level add_collaborator passes to a grant request is
\* one of these three values.
C13_OnlyTheThreeLevelsAreGranted ==
    /\ \A k \in DOMAIN calls :
          (calls[k].op = "grant" /\ calls[k].step = "add")
              => calls[k].level \in ValidGrantLevels
    /\ pc = "invalid" =>
          \E i \in DOMAIN collaborators_to_add :
              collaborators_to_add[i][2] \notin ValidGrantLevels
    /\ pc \in {"add", "add_loop"} =>
          \A i \in DOMAIN collaborators_to_add :
              collaborators_to_add[i][2] \in ValidGrantLevels

\* C14: after add_collaborator, the snapshot get_collaborators returns holds,
\* for every entry of collaborators_to_add with a level of push, pull, admin,
\* an entry with that login whose permission flag of that level is true.
FlagOf(entry, level) ==
    CASE level = "push"  -> entry.permissions.push
      [] level = "pull"  -> entry.permissions.pull
      [] level = "admin" -> entry.permissions.admin
      [] OTHER -> FALSE

C14_AddedLoginIsInSnapshot ==
    (/\ pc \in {"emit", "done", "returned"}
     /\ collaborators_to_remove = {}
     /\ collaborators_to_change = <<>>)
    => \A i \in DOMAIN collaborators_to_add :
          collaborators_to_add[i][2] \in ValidGrantLevels
            => \E k \in DOMAIN output :
                  /\ output[k].login = collaborators_to_add[i][1]
                  /\ FlagOf(output[k], collaborators_to_add[i][2])

\* C16: the validation failure handed to the caller names the login and the
\* level of the directive it rejected.
MsgNames(text) == \E i \in DOMAIN result.msg : result.msg[i] = text

C16_ValidationFailureNamesLoginAndLevel ==
    pc = "invalid" =>
        /\ MsgNames(collaborators_to_add[FirstInvalid][2])
        /\ MsgNames(collaborators_to_add[FirstInvalid][1])

\* C18: running the same invocation a second time, with nobody else touching
\* the repository, leaves the collaborator state as the first run left it,
\* and the second run reports changed = false.
C18_SecondRunIsIdempotent ==
    run > 1 =>
        /\ pc \in {"emit", "done", "returned"} => perms = seen_before
        /\ pc = "done" => result.changed = FALSE

C18_Witness ==
    /\ run = 2
    /\ pc = "done"
    /\ result.changed = FALSE
    /\ \E j, k \in DOMAIN calls :
          /\ calls[j].run = 1 /\ calls[j].op = "grant"
          /\ calls[k].run = 2 /\ calls[k].op = "grant"
    /\ \E k \in ThisRun : calls[k].op = "revoke"

\* C20: a login that is in none of collaborators_to_add,
\* collaborators_to_remove and collaborators_to_change gets no grant and no
\* revoke, and its role on the repository stays what it was before the
\* invocation.
NamedLogins == AddLogins \cup collaborators_to_remove \cup ChangeLogins

C20_UnnamedLoginsAreUntouched ==
    \A login \in Logins \ NamedLogins :
        /\ \A k \in MutationsThisRun : calls[k].login # login
        /\ perms[login] = seen_before[login]
        /\ Flags(perms[login]) = Flags(seen_before[login])

C20_Witness ==
    /\ pc = "done"
    /\ perms # seen_before
    /\ \E k \in MutationsThisRun : calls[k].op = "revoke"
    /\ \E login \in Logins \ NamedLogins :
          /\ IsDirect(perms, login)
          /\ \E i \in DOMAIN collaborators : collaborators[i] = login

\* C17: the check step influences nothing: check_permissions issues no grant
\* and no revoke, and the mutations issued, the final remote state and the
\* emitted changed and collaborators are those determined by the state read
\* before, collaborators_to_add, collaborators_to_remove and
\* collaborators_to_change alone, whatever check_collaborator holds and
\* whatever check_permissions returned.
Accepted(level) == CHOOSE o \in ProviderGrant(level) : o # "rejected"

RECURSIVE AddsApplied(_, _, _)
AddsApplied(p, to_add, k) ==
    IF k > Len(to_add) THEN p
    ELSE AddsApplied([p EXCEPT ![to_add[k][1]] = Accepted(to_add[k][2])],
                     to_add, k + 1)

RemovesApplied(p, to_remove) ==
    [login \in DOMAIN p |-> IF login \in to_remove THEN "none" ELSE p[login]]

RECURSIVE ChangesApplied(_, _, _, _)
ChangesApplied(p, members, to_change, k) ==
    IF k > Len(to_change) THEN p
    ELSE ChangesApplied(
            IF to_change[k][1] \in members
            THEN [p EXCEPT ![to_change[k][1]] = Accepted(to_change[k][2])]
            ELSE p,
            members, to_change, k + 1)

AfterAdds == AddsApplied(seen_before, collaborators_to_add, 1)
AfterRemoves == RemovesApplied(AfterAdds, collaborators_to_remove)
ExpectedFinal ==
    ChangesApplied(AfterRemoves, Members(AfterRemoves),
                   collaborators_to_change, 1)

ExpectedMutations ==
    [i \in DOMAIN collaborators_to_add |->
        <<"grant", collaborators_to_add[i][1], collaborators_to_add[i][2]>>]
    \o [i \in DOMAIN SelectSeq(Listing(AfterAdds),
                      LAMBDA login : login \in collaborators_to_remove) |->
        <<"revoke",
          SelectSeq(Listing(AfterAdds),
                    LAMBDA login : login \in collaborators_to_remove)[i],
          "-">>]
    \o [i \in DOMAIN SelectSeq(collaborators_to_change,
                      LAMBDA d : IsDirect(AfterRemoves, d[1])) |->
        <<"grant",
          SelectSeq(collaborators_to_change,
                    LAMBDA d : IsDirect(AfterRemoves, d[1]))[i][1],
          SelectSeq(collaborators_to_change,
                    LAMBDA d : IsDirect(AfterRemoves, d[1]))[i][2]>>]

IssuedMutations ==
    LET m == SelectSeq(CallsThisRun,
                       LAMBDA c : c.op \in {"grant", "revoke"})
    IN  [i \in DOMAIN m |-> <<m[i].op, m[i].login, m[i].level>>]

C17_CheckInfluencesNothing ==
    /\ \A k \in DOMAIN calls :
          calls[k].step = "check" => calls[k].op \notin {"grant", "revoke"}
    /\ pc \in {"emit", "done", "returned"} =>
          /\ IssuedMutations = ExpectedMutations
          /\ perms = ExpectedFinal
    /\ pc = "done" =>
          result = [kind |-> "success",
                    changed |->
                        (json_dumps(get_collaborators(seen_before))
                            # json_dumps(get_collaborators(ExpectedFinal))),
                    collaborators |-> get_collaborators(ExpectedFinal)]

C17_Witness ==
    /\ pc = "done"
    /\ check_collaborator # <<>>
    /\ status = FALSE
    /\ perms # seen_before
    /\ \E j, k \in ThisRun :
          /\ j < k
          /\ calls[j].op = "permission"
          /\ calls[k].op = "grant" /\ calls[k].step = "change"

\* C19: every grant change_collaborator_permissions issues targets a login
\* that is a direct collaborator at the moment the grant is applied, also
\* when another actor revokes that login between the snapshot read and the
\* grant.
ChangeGrantIssued ==
    /\ pc = "change_loop"
    /\ Len(calls') = Len(calls) + 1
    /\ calls'[Len(calls')].op = "grant"
GrantedLogin == collaborators_to_change[idx][1]

C19_ChangeGrantsOnlyCurrentCollaborators ==
    [][ChangeGrantIssued => IsDirect(perms, GrantedLogin)]_vars

\* C19 as amended: every grant change_collaborator_permissions issues targets
\* a login of the snapshot it read, and that login is a direct collaborator
\* when the grant is applied unless another actor revoked it after the
\* snapshot was read; in that case the grant creates the relationship anew.
SnapshotAt ==
    CHOOSE k \in ThisRun : calls[k].op = "list" /\ calls[k].step = "change"
RevokedSinceSnapshot(login) ==
    \E k \in ThisRun :
        /\ k > SnapshotAt
        /\ calls[k].op = "ext_revoke"
        /\ calls[k].login = login

C19_ChangeGrantsSnapshotMembers ==
    [][ChangeGrantIssued =>
          /\ GrantedLogin \in collaborator_set
          /\ ~RevokedSinceSnapshot(GrantedLogin)
                => IsDirect(perms, GrantedLogin)
          /\ (RevokedSinceSnapshot(GrantedLogin) /\ pc' # "error")
                => (~IsDirect(perms, GrantedLogin)
                    /\ IsDirect(perms', GrantedLogin))]_vars

C19_Witness ==
    /\ pc \in {"read_after", "emit", "done"}
    /\ \E s, j, k \in ThisRun :
          /\ calls[s].op = "list" /\ calls[s].step = "change"
          /\ s < j /\ j < k
          /\ calls[j].op = "ext_revoke"
          /\ calls[k].op = "grant" /\ calls[k].step = "change"
          /\ calls[k].login = calls[j].login
          /\ IsDirect(perms, calls[k].login)

\* C15: invocations on two distinct repositories, interleaved in any way,
\* do not affect each other: every remote call of an invocation names the
\* repository the invocation was given, and when an invocation has ended,
\* the roles on its repository and the result it emitted are those its
\* directives produce from the repository's initial roles when it runs
\* alone.
AloneFinal(p0, inv) ==
    LET added   == AddsApplied(p0, inv.collaborators_to_add, 1)
        removed == RemovesApplied(added, inv.collaborators_to_remove)
    IN  ChangesApplied(removed, Members(removed),
                       inv.collaborators_to_change, 1)

AsAlone(inv, now) ==
    LET given == <<inv.organization_name, "/", inv.repo_name>>
        p0    == initial[given]
    IN  /\ \A k \in DOMAIN inv.calls : inv.calls[k].repo = given
        /\ inv.pc = "invalid" =>
              /\ now[given] = p0
              /\ inv.result.kind = "failed"
        /\ inv.pc \in {"emit", "done"} => now[given] = AloneFinal(p0, inv)
        /\ inv.pc = "done" =>
              inv.result =
                [kind |-> "success",
                 changed |->
                    (json_dumps(get_collaborators(p0))
                        # json_dumps(get_collaborators(AloneFinal(p0, inv)))),
                 collaborators |-> get_collaborators(AloneFinal(p0, inv))]

\* The provider as it is now: the running invocation's repository holds
\* perms.
ProviderNow == [provider EXCEPT ![repo] = perms]

C15_TwoRepositoriesDoNotInterfere ==
    /\ AsAlone(Self, ProviderNow)
    /\ parked # NoInvocation => AsAlone(parked, ProviderNow)
    /\ \A q \in QualifiedNames :
          (q # repo /\ (parked # NoInvocation => q # parked.repo))
              => ProviderNow[q] = initial[q]

C15_Witness ==
    /\ parked # NoInvocation
    /\ interleaved
    /\ pc = "done" /\ parked.pc = "done"
    /\ result.changed /\ parked.result.changed
    /\ ProviderNow[repo] # initial[repo]
    /\ ProviderNow[parked.repo] # initial[parked.repo]
====
